---- MODULE Spec2Model ----
(***************************************************************************)
(* Model of src/m3u8_downloader.py: download_m3u8, the retry and process   *)
(* supervision wrapper around the external media tool, and log.            *)
(*                                                                         *)
(* One call of download_m3u8 is followed statement by statement (pc).  The *)
(* environment is the external tool: a spawned child produces output       *)
(* lines, may write the output file, and terminates with an exit code.     *)
(* Strings that the code inspects (the output path) are sequences of       *)
(* characters; dicts are sequences of <<key, value>> pairs in insertion    *)
(* order, as Python dicts are.                                             *)
(***************************************************************************)
EXTENDS Integers, Sequences, FiniteSets, TLC

\* ------------------------------------------------------------------ bounds
MaxRetry == 2
MaxLines == 1
MaxHeaders == 2

\* ------------------------------------------------------- strings and dicts
Mp4Suffix == <<".", "m", "p", "4">>

LowerChar(c) ==
    CASE c = "A" -> "a"
      [] c = "M" -> "m"
      [] c = "P" -> "p"
      [] OTHER -> c

Lower(s) == [i \in 1..Len(s) |-> LowerChar(s[i])]

EndsWith(s, suf) ==
    /\ Len(s) >= Len(suf)
    /\ SubSeq(s, Len(s) - Len(suf) + 1, Len(s)) = suf

\* int(time.time()) rendered in decimal: one clock reading is modelled
Timestamp == <<"1", "7">>

TimestampName == <<"o", "u", "t", "p", "u", "t", "_">> \o Timestamp \o Mp4Suffix

\* mutant: the suffix test forgets .lower()
ResolveOutput_CaseSensitive(out) ==
    LET named == IF out = <<>> THEN TimestampName ELSE out
    IN  IF ~EndsWith(named, Mp4Suffix) THEN named \o Mp4Suffix ELSE named

\* mutant: the suffix is tested for but never appended
ResolveOutput_NoSuffix(out) == IF out = <<>> THEN TimestampName ELSE out

\* lines 37-43: the output path the call works with
ResolveOutput(out) ==
    LET named == IF out = <<>> THEN TimestampName ELSE out
    IN  IF ~EndsWith(Lower(named), Mp4Suffix) THEN named \o Mp4Suffix ELSE named

DictKeys(d) == {d[i][1] : i \in 1..Len(d)}

DictHas(d, k) == k \in DictKeys(d)

DictGet(d, k) == d[CHOOSE i \in 1..Len(d) : d[i][1] = k][2]

\* d[k] = v on an insertion-ordered dict: update in place or append
DictSet(d, k, v) ==
    IF DictHas(d, k)
    THEN [i \in 1..Len(d) |-> IF d[i][1] = k THEN <<k, v>> ELSE d[i]]
    ELSE Append(d, <<k, v>>)

RECURSIVE DictUpdate(_, _)
DictUpdate(d, h) ==
    IF h = <<>> THEN d
    ELSE DictUpdate(DictSet(d, h[1][1], h[1][2]), Tail(h))

default_headers ==
    << <<"User-Agent", "Mozilla/5.0 (Macintosh; Intel Mac OS X 10_15_7) AppleWebKit/537.36 (KHTML, like Gecko) Chrome/114.0.0.0 Safari/537.36">>,
       <<"Accept", "text/html,application/xhtml+xml,application/xml;q=0.9,image/webp,*/*;q=0.8">>,
       <<"Accept-Language", "zh-CN,zh;q=0.9,en;q=0.8">>,
       <<"Connection", "keep-alive">> >>

\* mutant: {**headers, **default_headers}, the defaults win
MergeHeaders_DefaultsWin(defaults, overrides) == DictUpdate(overrides, defaults)

\* line 54: {**default_headers, **(headers or {})}
MergeHeaders(defaults, overrides) == DictUpdate(defaults, overrides)

\* ------------------------------------------------------------- input sets
OverrideKeys == {"User-Agent", "Referer", "Cookie"}
OverrideValues == {"x"}

IsDict(d) == \A i, j \in 1..Len(d) : d[i][1] = d[j][1] => i = j

HeaderInputs ==
    {d \in UNION {[1..n -> OverrideKeys \X OverrideValues] : n \in 0..MaxHeaders} : IsDict(d)}

OutputInputs ==
    { <<>>, <<"a">>, <<"a", ".", "m", "p", "4">>, <<"a", ".", "M", "P", "4">>,
      <<"a", ".", "M", "p", "4">> }

DiskInputs == { {}, { <<"a", ".", "m", "p", "4">> } }

ExitCodes == {0, 1}

\* ------------------------------------------------------------------ state
VARIABLES
    retry, retry_delay, quiet, log_callback, headers, output_file,
    request_headers, cmd, files, filesAtCall, pc, attempt, process, children,
    linesRead, spawns, sleeps, outcomes, logCalls, console, cbLog, result, raisedAt,
    output_arg, args, exit_code

request == <<retry, retry_delay, quiet, log_callback, headers, filesAtCall,
             output_arg, args, exit_code>>
locals == <<output_file, request_headers, cmd>>
counters == <<spawns, sleeps, outcomes>>
logs == <<logCalls, console, cbLog>>
vars == <<retry, retry_delay, quiet, log_callback, headers, output_file,
          request_headers, cmd, files, filesAtCall, pc, attempt, process, children,
          linesRead, spawns, sleeps, outcomes, logCalls, console, cbLog, result, raisedAt,
          output_arg, args, exit_code>>

Msg(kind, a, b) == [kind |-> kind, a |-> a, b |-> b]

\* command-line values: "" stands for an option not given (or given empty)
ArgValues == {"", "x"}

NoArgs == [user_agent |-> "", referer |-> "", cookie |-> ""]

InitCall ==
    /\ filesAtCall = files
    /\ output_arg = output_file
    /\ exit_code = -1
    /\ request_headers = <<>>
    /\ cmd = <<>>
    /\ attempt = -1
    /\ process = 0
    /\ children = <<>>
    /\ linesRead = 0
    /\ spawns = 0
    /\ sleeps = <<>>
    /\ outcomes = <<>>
    /\ logCalls = <<>>
    /\ console = <<>>
    /\ cbLog = <<>>
    /\ result = "none"
    /\ raisedAt = 0

\* requests within the documented constraints (retry >= 0, retry_delay >= 0),
\* no header overrides, no log callback or one that returns normally
Init ==
    /\ args = NoArgs
    /\ pc = "resolve"
    /\ retry \in 0..MaxRetry
    /\ retry_delay \in {0, 5}
    /\ quiet \in BOOLEAN
    /\ log_callback \in {"none", "returns"}
    /\ headers = <<>>
    /\ output_file = <<"a">>
    /\ \E disk \in DiskInputs : files = [p \in disk |-> "old"]
    /\ InitCall

\* any request: negative retry or delay, a log callback that may raise
InitAny ==
    /\ args = NoArgs
    /\ pc = "resolve"
    /\ retry \in -2..MaxRetry
    /\ retry_delay \in {-1, 5}
    /\ quiet = TRUE
    /\ log_callback \in {"returns", "raises"}
    /\ headers = <<>>
    /\ output_file = <<"a">>
    /\ \E disk \in DiskInputs : files = [p \in disk |-> "old"]
    /\ InitCall

\* the data a request carries: every header override and output path of the
\* input sets, with one retry allowed
InitInputs ==
    /\ args = NoArgs
    /\ pc = "resolve"
    /\ retry = 1
    /\ retry_delay = 5
    /\ quiet \in BOOLEAN
    /\ log_callback \in {"none", "returns"}
    /\ headers \in HeaderInputs
    /\ output_file \in OutputInputs
    /\ \E disk \in DiskInputs : files = [p \in disk |-> "old"]
    /\ InitCall

\* a run of the command line (121-159): the parsed options
InitCli ==
    /\ args \in [user_agent : ArgValues, referer : ArgValues, cookie : ArgValues]
    /\ retry \in {0, 1}
    /\ retry_delay = 5
    /\ quiet \in BOOLEAN
    /\ log_callback = "none"
    /\ headers = <<>>
    /\ output_file \in {<<>>, <<"a">>}
    /\ \E disk \in DiskInputs : files = [p \in disk |-> "old"]
    /\ InitCall
    /\ pc = "cli_build"

\* ------------------------------------------------------------ log (114-119)
\* whether this invocation of log raises: only a supplied callback can
SinkRaises == IF log_callback = "raises" THEN BOOLEAN ELSE {FALSE}

\* mutant: the callback is under the quiet test too
LogEffect_QuietMutesCallback(m) ==
    /\ logCalls' = Append(logCalls, m)
    /\ console' = IF ~quiet THEN Append(console, m) ELSE console
    /\ cbLog' = IF ~quiet /\ log_callback # "none" THEN Append(cbLog, m) ELSE cbLog

LogEffect(m) ==
    /\ logCalls' = Append(logCalls, m)
    /\ console' = IF ~quiet THEN Append(console, m) ELSE console
    /\ cbLog' = IF log_callback # "none" THEN Append(cbLog, m) ELSE cbLog

\* an exception leaves download_m3u8
Propagate(line) ==
    /\ pc' = "done"
    /\ result' = "raised"
    /\ raisedAt' = line

\* ------------------------------------------------- download_m3u8 (8-112)
\* lines 37-43
Resolve ==
    /\ pc = "resolve"
    /\ output_file' = ResolveOutput(output_file)
    /\ pc' = "merge"
    /\ UNCHANGED <<request, request_headers, cmd, files, attempt, process,
                   children, linesRead, counters, logs, result, raisedAt>>

\* lines 46-54
Merge ==
    /\ pc = "merge"
    /\ request_headers' = MergeHeaders(default_headers, headers)
    /\ pc' = "check"
    /\ UNCHANGED <<request, output_file, cmd, files, attempt, process,
                   children, linesRead, counters, logs, result, raisedAt>>

\* mutant: the existence check is missing
CheckExists_Skipped ==
    /\ pc = "check"
    /\ pc' = "log_start"
    /\ UNCHANGED <<request, locals, files, attempt, process, children,
                   linesRead, counters, logs, result, raisedAt>>

\* line 57
CheckExists ==
    /\ pc = "check"
    /\ pc' = IF output_file \in DOMAIN files THEN "log_exists" ELSE "log_start"
    /\ UNCHANGED <<request, locals, files, attempt, process, children,
                   linesRead, counters, logs, result, raisedAt>>

\* mutant: the collision is logged but the call goes on
LogExists_NoReturn ==
    /\ pc = "log_exists"
    /\ LogEffect(Msg("file_exists", 0, 0))
    /\ \E r \in SinkRaises :
          IF r THEN Propagate(58)
          ELSE pc' = "log_start" /\ UNCHANGED <<result, raisedAt>>
    /\ UNCHANGED <<request, locals, files, attempt, process, children,
                   linesRead, counters>>

\* lines 58-59
LogExists ==
    /\ pc = "log_exists"
    /\ LogEffect(Msg("file_exists", 0, 0))
    /\ \E r \in SinkRaises :
          IF r THEN Propagate(58)
          ELSE pc' = "done" /\ result' = "False" /\ UNCHANGED raisedAt
    /\ UNCHANGED <<request, locals, files, attempt, process, children,
                   linesRead, counters>>

\* line 61
LogStart ==
    /\ pc = "log_start"
    /\ LogEffect(Msg("start", 0, 0))
    /\ \E r \in SinkRaises :
          IF r THEN Propagate(61)
          ELSE pc' = "build" /\ UNCHANGED <<result, raisedAt>>
    /\ UNCHANGED <<request, locals, files, attempt, process, children,
                   linesRead, counters>>

ffmpeg_path == "ffmpeg"
url == "http://x/a.m3u8"
timeout == 600

Digit(n) == CASE n = 0 -> "0" [] n = 1 -> "1" [] n = 2 -> "2" [] n = 3 -> "3"
              [] n = 4 -> "4" [] n = 5 -> "5" [] n = 6 -> "6" [] n = 7 -> "7"
              [] n = 8 -> "8" [] n = 9 -> "9"

\* str(n) for n >= 0, as a sequence of characters
RECURSIVE Str(_)
Str(n) == IF n < 10 THEN <<Digit(n)>> ELSE Str(n \div 10) \o <<Digit(n % 10)>>

\* line 64: ''.join(f"{k}: {v}\r\n" ...), in the dict's order
RECURSIVE HeadersStr(_)
HeadersStr(d) ==
    IF d = <<>> THEN <<>>
    ELSE <<d[1][1], ": ", d[1][2], "\r\n">> \o HeadersStr(Tail(d))

\* lines 65-73
BuildCmdVector(tool, hdrs, u, t, out) ==
    <<tool, "-headers", HeadersStr(hdrs), "-i", u, "-c", "copy",
      "-bsf:a", "aac_adtstoasc", "-timeout", Str(t), out>>

\* lines 64-73
BuildCmd ==
    /\ pc = "build"
    /\ cmd' = BuildCmdVector(ffmpeg_path, request_headers, url, timeout, output_file)
    /\ pc' = "loop"
    /\ UNCHANGED <<request, output_file, request_headers, files, attempt,
                   process, children, linesRead, counters, logs, result, raisedAt>>

\* mutant: range(retry + 2), one attempt too many
LoopHead_OffByOne ==
    /\ pc = "loop"
    /\ IF attempt + 1 < retry + 2
       THEN attempt' = attempt + 1 /\ pc' = "log_attempt"
       ELSE attempt' = attempt /\ pc' = "log_max"
    /\ UNCHANGED <<request, locals, files, process, children, linesRead,
                   counters, logs, result, raisedAt>>

\* mutant: the existence check is repeated before every attempt
LoopHead_Recheck ==
    /\ pc = "loop"
    /\ IF output_file \in DOMAIN files
       THEN attempt' = attempt /\ pc' = "log_exists"
       ELSE IF attempt + 1 < retry + 1
            THEN attempt' = attempt + 1 /\ pc' = "log_attempt"
            ELSE attempt' = attempt /\ pc' = "log_max"
    /\ UNCHANGED <<request, locals, files, process, children, linesRead,
                   counters, logs, result, raisedAt>>

\* mutant: the loop body runs once before the bound is tested
LoopHead_DoWhile ==
    /\ pc = "loop"
    /\ IF attempt = -1 \/ attempt + 1 < retry + 1
       THEN attempt' = attempt + 1 /\ pc' = "log_attempt"
       ELSE attempt' = attempt /\ pc' = "log_max"
    /\ UNCHANGED <<request, locals, files, process, children, linesRead,
                   counters, logs, result, raisedAt>>

\* line 76: for attempt in range(retry + 1)
LoopHead ==
    /\ pc = "loop"
    /\ IF attempt + 1 < retry + 1
       THEN attempt' = attempt + 1 /\ pc' = "log_attempt"
       ELSE attempt' = attempt /\ pc' = "log_max"
    /\ UNCHANGED <<request, locals, files, process, children, linesRead,
                   counters, logs, result, raisedAt>>

\* mutant: the attempt message is logged before the try block is entered
LogAttempt_OutsideTry ==
    /\ pc = "log_attempt"
    /\ LogEffect(Msg("attempt", attempt + 1, retry + 1))
    /\ \E r \in SinkRaises :
          IF r THEN Propagate(78)
          ELSE pc' = "spawn" /\ UNCHANGED <<result, raisedAt>>
    /\ UNCHANGED <<request, locals, files, attempt, process, children,
                   linesRead, counters>>

\* mutant: the loop index is logged as it is, counting from 0
LogAttempt_ZeroBased ==
    /\ pc = "log_attempt"
    /\ LogEffect(Msg("attempt", attempt, retry + 1))
    /\ \E r \in SinkRaises : pc' = IF r THEN "except" ELSE "spawn"
    /\ UNCHANGED <<request, locals, files, attempt, process, children,
                   linesRead, counters, result, raisedAt>>

\* line 78
LogAttempt ==
    /\ pc = "log_attempt"
    /\ LogEffect(Msg("attempt", attempt + 1, retry + 1))
    /\ \E r \in SinkRaises : pc' = IF r THEN "except" ELSE "spawn"
    /\ UNCHANGED <<request, locals, files, attempt, process, children,
                   linesRead, counters, result, raisedAt>>

\* mutant: a retry passes -y to overwrite what the failed attempt left
Spawn_OverwriteOnRetry ==
    /\ pc = "spawn"
    /\ spawns' = spawns + 1
    /\ \/ /\ children' = Append(children,
                [status |-> "running", code |-> 0,
                 argv |-> IF attempt > 0 THEN <<cmd[1], "-y">> \o Tail(cmd) ELSE cmd])
          /\ process' = Len(children) + 1
          /\ linesRead' = 0
          /\ pc' = "relay"
          /\ UNCHANGED outcomes
       \/ /\ outcomes' = Append(outcomes, "spawn_fault")
          /\ pc' = "except"
          /\ UNCHANGED <<children, process, linesRead>>
    /\ UNCHANGED <<request, locals, files, attempt, sleeps, logs, result, raisedAt>>

\* lines 81-86: Popen either starts a child or raises (e.g. tool not found)
Spawn ==
    /\ pc = "spawn"
    /\ spawns' = spawns + 1
    /\ \/ /\ children' = Append(children, [status |-> "running", code |-> 0, argv |-> cmd])
          /\ process' = Len(children) + 1
          /\ linesRead' = 0
          /\ pc' = "relay"
          /\ UNCHANGED outcomes
       \/ /\ outcomes' = Append(outcomes, "spawn_fault")
          /\ pc' = "except"
          /\ UNCHANGED <<children, process, linesRead>>
    /\ UNCHANGED <<request, locals, files, attempt, sleeps, logs, result, raisedAt>>

\* lines 89-91: one iteration of the relay loop, or its end at end of stream
Relay ==
    /\ pc = "relay"
    /\ \/ /\ linesRead < MaxLines
          /\ linesRead' = linesRead + 1
          /\ console' = IF ~quiet THEN Append(console, Msg("line", process, linesRead + 1))
                        ELSE console
          /\ pc' = "relay"
          /\ UNCHANGED outcomes
       \/ /\ linesRead < MaxLines
          /\ outcomes' = Append(outcomes, "relay_fault")
          /\ pc' = "except"
          /\ UNCHANGED <<linesRead, console>>
       \/ /\ pc' = "wait"
          /\ UNCHANGED <<linesRead, console, outcomes>>
    /\ UNCHANGED <<request, locals, files, attempt, process, children, spawns,
                   sleeps, logCalls, cbLog, result, raisedAt>>

\* mutant: the exit code is read without waiting for the child
Wait_NoBlock ==
    /\ pc = "wait"
    /\ outcomes' = Append(outcomes, IF children[process].code = 0 THEN "exit0" ELSE "nonzero")
    /\ pc' = "classify"
    /\ UNCHANGED <<request, locals, files, attempt, process, children,
                   linesRead, spawns, sleeps, logs, result, raisedAt>>

\* line 94: process.wait() returns once the child has terminated
Wait ==
    /\ pc = "wait"
    /\ children[process].status = "exited"
    /\ outcomes' = Append(outcomes, IF children[process].code = 0 THEN "exit0" ELSE "nonzero")
    /\ pc' = "classify"
    /\ UNCHANGED <<request, locals, files, attempt, process, children,
                   linesRead, spawns, sleeps, logs, result, raisedAt>>

returncode == children[process].code

\* mutant: success is logged but the loop goes on instead of returning
LogDone_NoReturn ==
    /\ pc = "classify"
    /\ returncode = 0
    /\ LogEffect(Msg("done", 0, 0))
    /\ \E r \in SinkRaises : pc' = IF r THEN "except" ELSE "loop"
    /\ UNCHANGED <<request, locals, files, attempt, process, children,
                   linesRead, counters, result, raisedAt>>

\* lines 96-98
LogDone ==
    /\ pc = "classify"
    /\ returncode = 0
    /\ LogEffect(Msg("done", 0, 0))
    /\ \E r \in SinkRaises :
          IF r THEN pc' = "except" /\ UNCHANGED result
          ELSE pc' = "done" /\ result' = "True"
    /\ UNCHANGED <<request, locals, files, attempt, process, children,
                   linesRead, counters, raisedAt>>

\* mutant: the delay is applied after the final attempt too
LogFailed_SleepAlways ==
    /\ pc = "classify"
    /\ returncode # 0
    /\ LogEffect(Msg("failed", returncode, 0))
    /\ \E r \in SinkRaises : pc' = IF r THEN "except" ELSE "log_retry"
    /\ UNCHANGED <<request, locals, files, attempt, process, children,
                   linesRead, counters, result, raisedAt>>

\* lines 99-101
LogFailed ==
    /\ pc = "classify"
    /\ returncode # 0
    /\ LogEffect(Msg("failed", returncode, 0))
    /\ \E r \in SinkRaises :
          pc' = IF r THEN "except"
                ELSE IF attempt < retry THEN "log_retry" ELSE "loop"
    /\ UNCHANGED <<request, locals, files, attempt, process, children,
                   linesRead, counters, result, raisedAt>>

\* line 102
LogRetry ==
    /\ pc = "log_retry"
    /\ LogEffect(Msg("retry_in", retry_delay, 0))
    /\ \E r \in SinkRaises : pc' = IF r THEN "except" ELSE "sleep"
    /\ UNCHANGED <<request, locals, files, attempt, process, children,
                   linesRead, counters, result, raisedAt>>

\* time.sleep raises ValueError on a negative length
SleepRaises(d) == d < 0

\* line 103
Sleep ==
    /\ pc = "sleep"
    /\ IF SleepRaises(retry_delay)
       THEN pc' = "except" /\ UNCHANGED sleeps
       ELSE pc' = "loop" /\ sleeps' = Append(sleeps, attempt)
    /\ UNCHANGED <<request, locals, files, attempt, process, children,
                   linesRead, spawns, outcomes, logs, result, raisedAt>>

\* mutant: the handler retries at once, without the delay
Except_NoDelay ==
    /\ pc = "except"
    /\ LogEffect(Msg("error", 0, 0))
    /\ \E r \in SinkRaises :
          IF r THEN Propagate(106)
          ELSE pc' = "loop" /\ UNCHANGED <<result, raisedAt>>
    /\ UNCHANGED <<request, locals, files, attempt, process, children,
                   linesRead, counters>>

\* lines 105-107: the handler of "except Exception"
Except ==
    /\ pc = "except"
    /\ LogEffect(Msg("error", 0, 0))
    /\ \E r \in SinkRaises :
          IF r THEN Propagate(106)
          ELSE /\ pc' = IF attempt < retry THEN "h_log_retry" ELSE "loop"
               /\ UNCHANGED <<result, raisedAt>>
    /\ UNCHANGED <<request, locals, files, attempt, process, children,
                   linesRead, counters>>

\* line 108
HandlerLogRetry ==
    /\ pc = "h_log_retry"
    /\ LogEffect(Msg("retry_in", retry_delay, 0))
    /\ \E r \in SinkRaises :
          IF r THEN Propagate(108)
          ELSE pc' = "h_sleep" /\ UNCHANGED <<result, raisedAt>>
    /\ UNCHANGED <<request, locals, files, attempt, process, children,
                   linesRead, counters>>

\* line 109
HandlerSleep ==
    /\ pc = "h_sleep"
    /\ IF SleepRaises(retry_delay)
       THEN Propagate(109) /\ UNCHANGED sleeps
       ELSE pc' = "loop" /\ sleeps' = Append(sleeps, attempt) /\ UNCHANGED <<result, raisedAt>>
    /\ UNCHANGED <<request, locals, files, attempt, process, children,
                   linesRead, spawns, outcomes, logs>>

\* mutant: the call reports success after the last failed attempt
LogMax_True ==
    /\ pc = "log_max"
    /\ LogEffect(Msg("max_retries", 0, 0))
    /\ \E r \in SinkRaises :
          IF r THEN Propagate(111)
          ELSE pc' = "done" /\ result' = "True" /\ UNCHANGED raisedAt
    /\ UNCHANGED <<request, locals, files, attempt, process, children,
                   linesRead, counters>>

\* lines 111-112
LogMax ==
    /\ pc = "log_max"
    /\ LogEffect(Msg("max_retries", 0, 0))
    /\ \E r \in SinkRaises :
          IF r THEN Propagate(111)
          ELSE pc' = "done" /\ result' = "False" /\ UNCHANGED raisedAt
    /\ UNCHANGED <<request, locals, files, attempt, process, children,
                   linesRead, counters>>

\* ------------------------------------------------- the external tool
\* what a terminating child leaves at argv's output path
WrittenBy(code) == IF code = 0 THEN {"complete"} ELSE {"partial", "nothing"}

\* a running child spawned at 81-86 terminates with an exit code
ChildExit(i) ==
    /\ children[i].status = "running"
    /\ \E code \in ExitCodes : \E w \in WrittenBy(code) :
          /\ children' = [children EXCEPT ![i].status = "exited", ![i].code = code]
          /\ LET out == children[i].argv[Len(children[i].argv)]
             IN  files' = IF w = "nothing" THEN files
                          ELSE [p \in DOMAIN files \cup {out} |-> IF p = out THEN w ELSE files[p]]
    /\ UNCHANGED <<request, locals, pc, attempt, process, linesRead, counters,
                   logs, result, raisedAt>>

ChildExits == \E i \in 1..Len(children) : ChildExit(i)

Step ==
    \/ Resolve \/ Merge \/ CheckExists \/ LogExists \/ LogStart \/ BuildCmd
    \/ LoopHead \/ LogAttempt \/ Spawn \/ Relay \/ Wait \/ LogDone \/ LogFailed
    \/ LogRetry \/ Sleep \/ Except \/ HandlerLogRetry \/ HandlerSleep \/ LogMax

Next == Step \/ ChildExits

Spec == Init /\ [][Next]_vars

SpecAny == InitAny /\ [][Next]_vars

SpecInputs == InitInputs /\ [][Next]_vars

\* lines 137-143: the header overrides the command line gives
CliHeaders(a) ==
    (IF a.user_agent # "" THEN << <<"User-Agent", a.user_agent>> >> ELSE <<>>)
    \o (IF a.referer # "" THEN << <<"Referer", a.referer>> >> ELSE <<>>)
    \o (IF a.cookie # "" THEN << <<"Cookie", a.cookie>> >> ELSE <<>>)

\* lines 134-154: build the headers and call download_m3u8
CliBuild ==
    /\ pc = "cli_build"
    /\ headers' = CliHeaders(args)
    /\ pc' = "resolve"
    /\ UNCHANGED <<retry, retry_delay, quiet, log_callback, filesAtCall, output_arg,
                   args, exit_code, locals, files, attempt, process, children,
                   linesRead, counters, logs, result, raisedAt>>

\* mutant: the success flag is returned as the exit code
CliExitCode_Swapped(success) == IF success THEN 1 ELSE 0

\* the value download_m3u8_cli returns for a result of download_m3u8
CliExitCode(success) == IF success THEN 0 ELSE 1

\* line 156
CliReturn ==
    /\ pc = "done"
    /\ result \in {"True", "False"}
    /\ exit_code' = CliExitCode(result = "True")
    /\ pc' = "cli_done"
    /\ UNCHANGED <<retry, retry_delay, quiet, log_callback, headers, filesAtCall,
                   output_arg, args, locals, files, attempt, process, children,
                   linesRead, counters, logs, result, raisedAt>>

NextCli == CliBuild \/ Step \/ ChildExits \/ CliReturn

SpecCli == InitCli /\ [][NextCli]_vars

\* the call is a single thread that keeps running, and every child terminates
Fairness == WF_vars(Step) /\ WF_vars(ChildExits)

\* the requests of Init, in quiet mode
InitLive == Init /\ quiet

LiveSpec == InitLive /\ [][Next]_vars /\ Fairness
\* ------------------------------------------------------------------ claims
Collision == pc # "resolve" /\ output_file \in DOMAIN filesAtCall

Last(q) == q[Len(q)]

\* C1: a call whose resolved output path exists when it is made spawns no
\* child, never sleeps, leaves the file as it was, takes only the steps
\* that lead to the "file exists" return, and its result is False.
C1_CollisionRejected ==
    Collision =>
        /\ spawns = 0
        /\ children = <<>>
        /\ sleeps = <<>>
        /\ files = filesAtCall
        /\ pc \in {"merge", "check", "log_exists", "done"}
        /\ pc = "done" => result = "False"

C1_Witness == Collision /\ pc = "done" /\ result = "False"

\* C2: with retry = N the tool is invoked at most N + 1 times, and once an
\* invocation has returned exit code 0 no further invocation is made.
C2_BoundedInvocations ==
    /\ spawns <= retry + 1
    /\ Len(children) <= spawns
    /\ \A i \in 1..Len(outcomes) : outcomes[i] = "exit0" => spawns = i
    /\ (pc = "spawn" /\ spawns > 0) =>
          /\ Len(outcomes) = spawns
          /\ Last(outcomes) # "exit0"

C2_Witness == spawns = retry + 1 /\ retry = 2 /\ outcomes = <<"nonzero", "spawn_fault">>

\* C3: exit code 0 on attempt k makes the call return True at once: the
\* attempt counter stays k, nothing is spawned and no sleep follows.
C3_SuccessReturnsAtOnce ==
    \A i \in 1..Len(outcomes) : outcomes[i] = "exit0" =>
        /\ i = Len(outcomes)
        /\ attempt = i - 1
        /\ attempt <= retry
        /\ spawns = i
        /\ \A j \in 1..Len(sleeps) : sleeps[j] # attempt
        /\ pc \in {"classify", "done"}
        /\ pc = "done" => result = "True"

C3_Witness == pc = "done" /\ result = "True" /\ attempt = 1 /\ retry = 2

AllNonZero == \A i \in 1..Len(outcomes) : outcomes[i] = "nonzero"

\* C4: when every attempt 0..N ends with a non-zero exit code the call
\* returns False after exactly N + 1 invocations and exactly N sleeps, one
\* after each of the attempts 0..N-1 and none after attempt N.
C4_ExhaustedSleepsNTimes ==
    (pc = "done" /\ ~Collision /\ AllNonZero) =>
        /\ result = "False"
        /\ spawns = retry + 1
        /\ Len(outcomes) = retry + 1
        /\ sleeps = [i \in 1..retry |-> i - 1]

C4_Witness ==
    /\ pc = "done" /\ ~Collision /\ AllNonZero
    /\ retry = 2 /\ Len(sleeps) = 2

Abs(o) == IF o = "exit0" THEN "ok" ELSE "fail"

Failures(q) == Cardinality({i \in 1..Len(q) : Abs(q[i]) = "fail"})

Min(a, b) == IF a < b THEN a ELSE b

\* C5: between attempts the call's state depends on the attempts made only
\* through which of them failed, not through how: attempts, invocations,
\* sleeps (one after each failed attempt i < N) and the final result are the
\* same for a non-zero exit, a spawn fault and a relay fault.
C5_FaultLikeNonZeroExit ==
    (pc \in {"loop", "log_max", "done"} /\ ~Collision /\ cmd # <<>>) =>
        /\ attempt + 1 = Len(outcomes)
        /\ spawns = Len(outcomes)
        /\ sleeps = [i \in 1..Min(Failures(outcomes), retry) |-> i - 1]
        /\ pc = "done" =>
              result = IF Failures(outcomes) = Len(outcomes) THEN "False" ELSE "True"

C5_Witness ==
    /\ pc = "done"
    /\ outcomes = <<"relay_fault", "nonzero", "spawn_fault">>
    /\ Len(sleeps) = 2

\* C6: a finished call returned True exactly when the existence check
\* passed and some attempt within 0..N yielded exit code 0, and False in
\* every other case.
C6_ResultDetermined ==
    pc = "done" =>
        /\ result \in {"True", "False"}
        /\ Len(outcomes) <= retry + 1
        /\ result = "True" <=>
              (~Collision /\ \E i \in 1..Len(outcomes) : outcomes[i] = "exit0")

C6_Witness ==
    /\ pc = "done" /\ result = "False" /\ ~Collision
    /\ outcomes = <<"spawn_fault", "relay_fault">>
\* C7 as stated: no exception ever leaves download_m3u8, whatever raised it.
C7_NothingPropagates == pc = "done" => result \in {"True", "False"}

\* where an exception is not inside the try block of lines 77-103: the
\* messages before and after the loop, and the handler itself
OutsideTry == {58, 61, 106, 108, 109, 111}

\* C7 (amended): an exception leaves download_m3u8 only when the log
\* callback or the retry sleep raised it outside the try block (lines 58,
\* 61, 106-109, 111); one raised inside the try block is handled as a
\* failed attempt, and with a callback that returns and retry_delay >= 0
\* every finished call returned True or False.
C7_PropagatesOnlyOutsideTry ==
    /\ result = "raised" =>
          /\ pc = "done"
          /\ raisedAt \in OutsideTry
          /\ log_callback = "raises" \/ retry_delay < 0
          /\ raisedAt = 109 => retry_delay < 0
          /\ raisedAt # 109 => log_callback = "raises"
    /\ result # "raised" => raisedAt = 0
    /\ (pc = "done" /\ log_callback # "raises" /\ retry_delay >= 0) =>
          result \in {"True", "False"}

C7_Witness ==
    /\ pc = "done" /\ result = "raised" /\ raisedAt = 106
    /\ outcomes = <<"exit0">>

Running == {i \in 1..Len(children) : children[i].status = "running"}

\* C8: at most one child spawned by the call is running at any time.
C8_OneChildAtATime == Cardinality(Running) <= 1

Rejected ==
    /\ result = "False"
    /\ Collision
    /\ attempt = -1 /\ spawns = 0
    /\ Last(logCalls).kind = "file_exists"

Succeeded ==
    /\ result = "True"
    /\ ~Collision
    /\ attempt \in 0..retry /\ spawns = attempt + 1
    /\ Last(outcomes) = "exit0"
    /\ Last(logCalls).kind = "done"

Exhausted ==
    /\ result = "False"
    /\ ~Collision
    /\ attempt = retry /\ spawns = retry + 1
    /\ \A i \in 1..Len(outcomes) : outcomes[i] # "exit0"
    /\ Last(logCalls).kind = "max_retries"

\* C9: when every child terminates the call terminates, in exactly one of
\* the states success at an attempt k in 0..N, exhausted after attempt N,
\* or rejected before any attempt; the attempt counter never decreases and
\* a terminal state is never left.
C9_Terminates ==
    /\ <>(pc = "done")
    /\ [](pc = "done" => (Succeeded \/ Exhausted \/ Rejected))
    /\ [][/\ attempt' >= attempt
          /\ pc = "done" => (pc' = "done" /\ result' = result /\ attempt' = attempt)]_vars

C9_Witness == pc = "done" /\ Exhausted /\ retry = 2 /\ Running = {}

\* C10: after the merge the header set has exactly the keys of the defaults
\* and of the overrides, no key twice; an override key carries the
\* caller's value and any other key the default; merging the overrides in
\* again changes nothing; {A:1,B:2} with {B:3,C:4} gives {A:1,B:3,C:4}.
C10_HeaderMerge ==
    /\ pc \notin {"resolve", "merge"} =>
          /\ IsDict(request_headers)
          /\ DictKeys(request_headers) = DictKeys(default_headers) \cup DictKeys(headers)
          /\ \A k \in DictKeys(request_headers) :
                DictGet(request_headers, k) =
                    IF DictHas(headers, k) THEN DictGet(headers, k)
                    ELSE DictGet(default_headers, k)
          /\ MergeHeaders(request_headers, headers) = request_headers
    /\ MergeHeaders(<< <<"A", 1>>, <<"B", 2>> >>, << <<"B", 3>>, <<"C", 4>> >>)
          = << <<"A", 1>>, <<"B", 3>>, <<"C", 4>> >>

C10_Witness ==
    /\ pc = "check"
    /\ headers = << <<"Referer", "x">>, <<"User-Agent", "x">> >>
    /\ Len(request_headers) = 5
\* s ends in ".mp4" in some letter case, read off the characters
AnyCaseMp4(s) ==
    /\ Len(s) >= 4
    /\ s[Len(s) - 3] = "."
    /\ s[Len(s) - 2] \in {"m", "M"}
    /\ s[Len(s) - 1] \in {"p", "P"}
    /\ s[Len(s)] = "4"

\* C11: a supplied output path that does not end in ".mp4" in any letter
\* case gets ".mp4" appended, one that does is left as it is, and resolving
\* the resolved path again changes nothing; "clip" gives "clip.mp4" and
\* "clip.MP4" stays "clip.MP4".
C11_Normalization ==
    /\ (pc # "resolve" /\ output_arg # <<>>) =>
          /\ ~AnyCaseMp4(output_arg) => output_file = output_arg \o <<".", "m", "p", "4">>
          /\ AnyCaseMp4(output_arg) => output_file = output_arg
    /\ pc # "resolve" => ResolveOutput(output_file) = output_file
    /\ ResolveOutput(<<"c", "l", "i", "p">>) = <<"c", "l", "i", "p", ".", "m", "p", "4">>
    /\ ResolveOutput(<<"c", "l", "i", "p", ".", "M", "P", "4">>)
          = <<"c", "l", "i", "p", ".", "M", "P", "4">>

C11_Witness ==
    /\ pc = "check"
    /\ output_arg = <<"a", ".", "M", "P", "4">>
    /\ output_file = output_arg

OutputOf(argv) == argv[Len(argv)]

\* C12 as stated: the resolved output path ends in the characters ".mp4".
C12_EndsInLowerMp4 ==
    pc # "resolve" => EndsWith(output_file, <<".", "m", "p", "4">>)

\* C12 (amended): the resolved output path, which is the path of the
\* existence check and the last argument of every invocation, ends in
\* ".mp4" under case-insensitive comparison, and in exactly ".mp4" when the
\* supplied path was absent, empty or had no such suffix.
C12_EndsInMp4AnyCase ==
    /\ pc # "resolve" =>
          /\ AnyCaseMp4(output_file)
          /\ (output_arg = <<>> \/ ~AnyCaseMp4(output_arg)) =>
                EndsWith(output_file, <<".", "m", "p", "4">>)
    /\ pc \in {"log_exists", "log_start"} =>
          ((pc = "log_exists") <=> (output_file \in DOMAIN files))
    /\ \A i \in 1..Len(children) :
          /\ OutputOf(children[i].argv) = output_file
          /\ AnyCaseMp4(OutputOf(children[i].argv))

C12_Witness ==
    /\ Len(children) = 1
    /\ OutputOf(children[1].argv) = <<"a", ".", "M", "P", "4">>
\* C13: the command line returns exit code 0 exactly when download_m3u8
\* returned True and 1 otherwise (collision, retries exhausted); it returns
\* nothing before download_m3u8 has returned.
C13_CliExitCode ==
    /\ pc = "cli_done" =>
          /\ result \in {"True", "False"}
          /\ exit_code \in {0, 1}
          /\ exit_code = 0 <=> result = "True"
          /\ (output_file \in DOMAIN filesAtCall) => exit_code = 1
          /\ (\A i \in 1..Len(outcomes) : outcomes[i] # "exit0") => exit_code = 1
    /\ pc # "cli_done" => exit_code = -1

C13_Witness ==
    /\ pc = "cli_done" /\ exit_code = 1
    /\ Len(outcomes) = 2
    /\ args.referer = "x"
IsLine(m) == m.kind = "line"

IsMessage(m) == m.kind # "line"

\* C14: a supplied log callback has received every log message of the call
\* whatever the quiet flag; in quiet mode the console has received nothing,
\* neither messages nor child output; otherwise it has received every log
\* message, in order, and every line read from the current child.
C14_QuietAndCallback ==
    /\ log_callback # "none" => cbLog = logCalls
    /\ quiet => console = <<>>
    /\ ~quiet =>
          /\ SelectSeq(console, IsMessage) = logCalls
          /\ process > 0 =>
                \A n \in 1..linesRead :
                    \E i \in 1..Len(console) : console[i] = Msg("line", process, n)
          /\ Len(SelectSeq(console, IsLine)) >= linesRead

C14_Witness ==
    /\ quiet /\ log_callback = "returns"
    /\ pc = "done" /\ result = "True" /\ linesRead = 1
    /\ Len(cbLog) = 3
\* the statement an attempt moves to comes after the one the code puts
\* before it
AttemptOrder ==
    pc' # pc =>
        /\ pc' = "spawn" => pc = "log_attempt"
        /\ pc' = "relay" => pc = "spawn"
        /\ pc' = "wait" => pc = "relay"
        /\ pc' = "classify" => pc = "wait"
        /\ pc = "classify" => pc' \in {"done", "log_retry", "loop"}

\* C15: within an attempt the attempt number is logged, then the child is
\* spawned, then its output is relayed up to the end of the stream, then
\* the child is waited for, then the exit code is classified; success or
\* failure is logged, and the retry decided, only for a child that has
\* terminated, with the exit code it terminated with.
C15_AttemptStepOrder ==
    /\ [][AttemptOrder]_vars
    /\ [](pc = "spawn" =>
            /\ Last(logCalls) = Msg("attempt", attempt + 1, retry + 1)
            /\ spawns = attempt)
    /\ [](pc \in {"relay", "wait", "classify"} =>
            /\ Last(logCalls) = Msg("attempt", attempt + 1, retry + 1)
            /\ spawns = attempt + 1
            /\ process = Len(children))
    /\ [](pc = "classify" =>
            /\ children[process].status = "exited"
            /\ Len(outcomes) = attempt + 1)
    /\ [](logCalls # <<>> =>
            /\ Last(logCalls).kind = "done" =>
                  children[process].status = "exited" /\ children[process].code = 0
            /\ Last(logCalls).kind = "failed" =>
                  /\ children[process].status = "exited"
                  /\ children[process].code = Last(logCalls).a
                  /\ children[process].code # 0)

C15_Witness ==
    /\ pc = "classify" /\ attempt = 1 /\ linesRead = 1
    /\ children[process].code = 1
    /\ children[1].status = "running"
IsAttempt(m) == m.kind = "attempt"

AttemptMsgs == SelectSeq(logCalls, IsAttempt)

\* C16: the attempt messages of a call carry the current numbers 1, 2,
\* ..., m in this order, one per attempt made, each with the total
\* retry + 1, and no current number exceeds the total.
C16_AttemptNumbers ==
    /\ \A j \in 1..Len(AttemptMsgs) :
          /\ AttemptMsgs[j].a = j
          /\ AttemptMsgs[j].b = retry + 1
          /\ AttemptMsgs[j].a <= AttemptMsgs[j].b
    /\ Len(AttemptMsgs) = IF pc = "log_attempt" THEN attempt ELSE attempt + 1
    /\ Len(AttemptMsgs) \in {spawns, spawns + 1}

C16_Witness == Len(AttemptMsgs) = 3 /\ retry = 2 /\ pc = "done" /\ result = "True"
\* the argument vector of section 6, written out for the call's request
ExpectedArgv ==
    <<"ffmpeg", "-headers", HeadersStr(request_headers), "-i", "http://x/a.m3u8",
      "-c", "copy", "-bsf:a", "aac_adtstoasc", "-timeout", <<"6", "0", "0">>,
      output_file>>

\* C17: every invocation of a call receives the same argument vector,
\* the one built once before the loop from the tool path, the header block,
\* the URL, the fixed options, the timeout and the output path; once it is
\* built, neither it nor the request parameters change.
C17_SameArgvEveryAttempt ==
    /\ [](\A i \in 1..Len(children) : children[i].argv = ExpectedArgv)
    /\ [](cmd # <<>> => cmd = ExpectedArgv)
    /\ [][cmd # <<>> =>
            /\ cmd' = cmd
            /\ output_file' = output_file
            /\ request_headers' = request_headers
            /\ <<retry, retry_delay, quiet, headers>>' = <<retry, retry_delay, quiet, headers>>
            /\ \A i \in 1..Len(children) : children'[i].argv = children[i].argv]_vars

C17_Witness ==
    /\ Len(children) = 2
    /\ children[1].argv = children[2].argv
    /\ Len(headers) = 2
    /\ attempt = 1
\* the existence check and its rejection are entered from the statement
\* before them only
CheckOnlyBeforeLoop ==
    pc' # pc =>
        /\ pc' = "merge" => pc = "resolve"
        /\ pc' = "check" => pc = "merge"
        /\ pc' = "log_exists" => pc = "check"

\* C18: the existence check is made once, before the first attempt, and
\* never again: a file at the output path that a failed attempt left does
\* not stop the following attempts, and such a call does not end rejected.
C18_CheckedOnce ==
    /\ [][CheckOnlyBeforeLoop]_vars
    /\ [](pc \in {"resolve", "merge", "check", "log_exists"} =>
            attempt = -1 /\ spawns = 0 /\ files = filesAtCall)
    /\ []((logCalls # <<>> /\ Last(logCalls).kind = "file_exists") =>
            Len(logCalls) = 1 /\ Collision)
    /\ []((pc = "done" /\ ~Collision) =>
            /\ ~Rejected
            /\ Succeeded \/ Exhausted
            /\ result = "False" => spawns = retry + 1)

C18_Witness ==
    /\ pc = "relay" /\ attempt = 1
    /\ output_file \in DOMAIN files
    /\ files[output_file] = "partial"
    /\ Len(children) = 2
Kinds(q) == [i \in 1..Len(q) |-> q[i].kind]

\* C19: with a negative retry count and a free output path the call makes
\* no attempt: nothing is spawned, nothing sleeps, and the call that
\* returns has logged "max retries reached" after the start message and
\* returns False.
C19_NegativeRetry ==
    (retry < 0 /\ pc # "resolve" /\ output_file \notin DOMAIN filesAtCall) =>
        /\ spawns = 0
        /\ children = <<>>
        /\ sleeps = <<>>
        /\ attempt = -1
        /\ files = filesAtCall
        /\ pc \in {"merge", "check", "log_start", "build", "loop", "log_max", "done"}
        /\ (pc = "done" /\ result # "raised") =>
              /\ result = "False"
              /\ Kinds(logCalls) = <<"start", "max_retries">>
        /\ result = "raised" => log_callback = "raises"

C19_Witness ==
    /\ retry = -2 /\ pc = "done" /\ result = "False"
    /\ log_callback = "returns"
    /\ output_file \notin DOMAIN filesAtCall
====
